---------------------------- MODULE Spec2Model ----------------------------
(***************************************************************************)
(* Model of jpy_tools/singleCellTools/diffxpy.py: the Format Adapter       *)
(* (parseAdToDiffxpyFormat), the Single-Pair Tester (testTwoSample), the   *)
(* two dispatchers (vsRest, sequential and process-pool; pairWise), the    *)
(* pool worker (_getDiffxpy) and the Marker Extractor (getMarker).         *)
(*                                                                         *)
(* Strings (group names, mapping keys) are sequences of one-character      *)
(* strings, so that building a key and parsing it back are computed.       *)
(* A mapping (a Python dict) is a sequence of entries in insertion order.  *)
(* Batch labels and size factors are not modelled (batchLabel = None).     *)
(***************************************************************************)
EXTENDS Integers, Sequences, FiniteSets, TLC

VARIABLES
    adata,      \* the expression collection: [obs |-> labels, X |-> rows]
    uns,        \* adataOrg.uns[keyAdded]: the mapping stored under the key
    pc,         \* position of the dispatcher inside the current call
    call,       \* arguments of the current (or last) call
    idx,        \* loop index of the dispatcher
    futures,    \* tasks submitted to the process pool, in submission order
    dt,         \* dt_diffxpyResult: group -> future, in insertion order
    shm,        \* the shared matrix buffer: [state, created]
    outcome,    \* how the last call ended: none | running | returned | raised
    ran,        \* the tests executed by the current call, in completion order
    started,    \* number of the last call that reached "start performing test"
    input,      \* argument of the pure function under check
    output,     \* its result
    phase       \* which functions have been applied to input

vars == <<adata, uns, pc, call, idx, futures, dt, shm, outcome, ran, started,
          input, output, phase>>

callVars == <<adata, uns, pc, call, idx, futures, dt, shm, outcome, ran, started>>
pureVars == <<input, output, phase>>

----------------------------------------------------------------------------
(* Bounds *)

MaxCells == 3       \* cells of a collection handed to the adapter alone
MaxMinCells == 2    \* largest minCellCounts handed to the adapter alone
PathCells == 2      \* cells of a collection in the comparison of the two paths
PathGenes == 2      \* genes of that collection
PathCount == 2      \* largest expression count of that collection
PathMinCells == 2   \* largest minCellCounts in the comparison
MaxNameLen == 3     \* longest group name in the key round trip
CallCells == 2      \* cells of the collection the dispatchers run on
MaxCalls == 2       \* calls made on the same key
Threads == 2        \* the threads argument of a parallel vsRest
MarkerGroups == 4   \* groups of the pairWise result handed to getMarker

\* the group names the collections are labelled with
GroupNames == {<<"a">>, <<"b">>, <<"a", "_", "b", "g", "_", "a">>}

----------------------------------------------------------------------------
(* Sequences, strings *)

Range(s) == {s[i] : i \in DOMAIN s}

RECURSIVE SumTo(_, _)
SumTo(f, n) == IF n = 0 THEN 0 ELSE f[n] + SumTo(f, n - 1)

Sum(s) == SumTo(s, Len(s))

Min(S) == CHOOSE x \in S : \A y \in S : x <= y
Max(S) == CHOOSE x \in S : \A y \in S : x >= y

\* the indices, in order, at which the boolean sequence b is TRUE
RECURSIVE TrueUpTo(_, _)
TrueUpTo(b, n) ==
    IF n = 0 THEN <<>>
    ELSE IF b[n] THEN Append(TrueUpTo(b, n - 1), n) ELSE TrueUpTo(b, n - 1)

TrueIndices(b) == TrueUpTo(b, Len(b))

Pick(s, ix) == [k \in 1..Len(ix) |-> s[ix[k]]]

\* all sequences over S of length lo..hi
SeqsOf(S, lo, hi) == UNION {[1..n -> S] : n \in lo..hi}

NoRepeat(s) == \A i, j \in DOMAIN s : i # j => s[i] # s[j]

\* s contains t at position p
HasAt(s, p, t) ==
    /\ p >= 1
    /\ p + Len(t) - 1 <= Len(s)
    /\ \A k \in 1..Len(t) : s[p + k - 1] = t[k]

StrTest == <<"t", "e", "s", "t", "_">>
StrBg == <<"_", "b", "g">>
StrBgSep == <<"_", "b", "g", "_">>
CatKey == <<"_", "_", "c", "a", "t">>
None == <<>>

\* f"test_{testGroup}_bg_{backgroundGroup}"
Key(testGroup, backgroundGroup) ==
    StrTest \o testGroup \o StrBgSep \o backgroundGroup

\* re.findall(r"test_([\w\W]+)_bg", comp): the group of the first match, <<>>
\* when there is none. The match starts at the leftmost "test_" that has a
\* "_bg" at least one character later; the greedy group runs to the last "_bg".
FindTested(comp) ==
    LET ends(s) == {p \in (s + 6)..Len(comp) : HasAt(comp, p, StrBg)}
        starts == {s \in 1..Len(comp) : HasAt(comp, s, StrTest) /\ ends(s) # {}}
    IN  IF starts = {} THEN <<>>
        ELSE LET s == Min(starts)
             IN  <<SubSeq(comp, s + 5, Max(ends(s)) - 1)>>

\* re.findall(r"_bg_([\w\W]+)", comp): the match starts at the leftmost "_bg_"
\* followed by a character; the greedy group runs to the end of the string.
FindBg(comp) ==
    LET starts == {s \in 1..Len(comp) :
                      HasAt(comp, s, StrBgSep) /\ s + 4 <= Len(comp)}
    IN  IF starts = {} THEN <<>>
        ELSE <<SubSeq(comp, Min(starts) + 4, Len(comp))>>

----------------------------------------------------------------------------
(* Mappings in insertion order *)

Keys(d) == [i \in 1..Len(d) |-> d[i].key]
HasKey(d, k) == \E i \in 1..Len(d) : d[i].key = k
Get(d, k) == d[CHOOSE i \in 1..Len(d) : d[i].key = k]

\* d[k] = e: an existing key keeps its place, a new key goes last
Put(d, e) ==
    IF HasKey(d, e.key)
    THEN [i \in 1..Len(d) |-> IF d[i].key = e.key THEN e ELSE d[i]]
    ELSE Append(d, e)

RECURSIVE UpdateUpTo(_, _, _)
UpdateUpTo(d, es, n) ==
    IF n = 0 THEN d ELSE Put(UpdateUpTo(d, es, n - 1), es[n])

\* d.update(es)
Update(d, es) == UpdateUpTo(d, es, Len(es))

\* pandas unique(): the distinct values in order of first appearance
RECURSIVE UniqueUpTo(_, _)
UniqueUpTo(s, n) ==
    IF n = 0 THEN <<>>
    ELSE LET u == UniqueUpTo(s, n - 1)
         IN  IF s[n] \in Range(u) THEN u ELSE Append(u, s[n])

Unique(s) == UniqueUpTo(s, Len(s))

----------------------------------------------------------------------------
(* Format Adapter, Single-Pair Tester, pool worker *)

\* a collection of n cells labelled by obs whose matrix is X
Collection(obs, X) ==
    [obs |-> obs, X |-> X,
     var |-> [j \in 1..(IF Len(X) = 0 THEN 0 ELSE Len(X[1])) |-> j],
     keep |-> <<>>, temp |-> <<>>]

\* one gene, of which cell i holds i counts
Ramp(n) == [i \in 1..n |-> <<i>>]

\* variant: every retained cell is labelled "1"
BinaryColumnAllKept(obs, testComp) == [i \in 1..Len(obs) |-> "1"]

\* np.select([obs == testComp], ["1"], "0")
BinaryColumn(obs, testComp) ==
    [i \in 1..Len(obs) |-> IF obs[i] = testComp THEN "1" ELSE "0"]

\* otherComp: None (<<>>), or the list of reference groups (a single name is
\* made a one-element list)
OtherComp(obs, testComp, otherComp) ==
    IF otherComp = None
    THEN SelectSeq(Unique(obs), LAMBDA x : x # testComp)
    ELSE otherComp

\* sc.pp.filter_genes(adata, min_cells): the genes expressed (count > 0) in
\* at least min_cells cells
FilterGenes(X, nVar, minCells) ==
    [j \in 1..nVar |->
        Cardinality({i \in 1..Len(X) : X[i][j] > 0}) >= minCells]

parseAdToDiffxpyFormat(ad, testComp, otherComp, minCellCounts, subset) ==
    LET other == OtherComp(ad.obs, testComp, otherComp)
        isin == [i \in 1..Len(ad.obs) |->
                    ad.obs[i] \in {testComp} \cup Range(other)]
        rows == IF subset THEN TrueIndices(isin)
                ELSE [i \in 1..Len(ad.obs) |-> i]
        obs1 == Pick(ad.obs, rows)
        X1 == Pick(ad.X, rows)
        genes == IF subset
                 THEN TrueIndices(FilterGenes(X1, Len(ad.var), minCellCounts))
                 ELSE [j \in 1..Len(ad.var) |-> j]
    IN  [obs |-> obs1,
         X |-> [i \in 1..Len(X1) |-> Pick(X1[i], genes)],
         var |-> Pick(ad.var, genes),
         keep |-> IF subset THEN <<>> ELSE isin,
         temp |-> BinaryColumn(obs1, testComp)]

\* what the engine reads of the collection it is handed
Handed(ad) == [obs |-> ad.obs, var |-> ad.var, temp |-> ad.temp, X |-> ad.X]

\* de.test.wald(...).summary(): the external engine, a fixed function of what
\* it is handed; one row per gene
Wald(ad) ==
    [k \in 1..Len(ad.var) |->
        LET col(v) == [i \in 1..Len(ad.obs) |->
                          IF ad.temp[i] = v THEN ad.X[i][k] ELSE 0]
        IN  [gene |-> ad.var[k],
             log2fc |-> Sum(col("1")) - Sum(col("0")),
             qval |-> Len(ad.obs),
             mean |-> Sum(col("1")) + Sum(col("0")),
             coef_mle |-> Sum(col("1"))]]

TwoClasses(ad) == Cardinality(Range(ad.temp)) = 2

\* the assertion, then the test
testTwoSample(ad) ==
    IF TwoClasses(ad)
    THEN [ok |-> TRUE, handed |-> Handed(ad), table |-> Wald(ad)]
    ELSE [ok |-> FALSE, handed |-> Handed(ad), table |-> <<>>]

\* ls_keepVar = mtxInShm[adata.obs['keep']].sum(0) > minCellCounts
KeepVar(mtx, keep, nVar, minCellCounts) ==
    [j \in 1..nVar |->
        Sum([i \in 1..Len(mtx) |-> IF keep[i] THEN mtx[i][j] ELSE 0])
            > minCellCounts]

\* the pool worker: ad is the pickled collection, mtx the shared buffer
getDiffxpy(ad, mtx, testComp, minCellCounts) ==
    LET parsed == parseAdToDiffxpyFormat(ad, testComp, None, minCellCounts, FALSE)
        rows == TrueIndices(parsed.keep)
        genes == TrueIndices(KeepVar(mtx, parsed.keep, Len(ad.var), minCellCounts))
        rowsX == Pick(mtx, rows)
    IN  testTwoSample(
            [obs |-> Pick(parsed.obs, rows),
             X |-> [i \in 1..Len(rowsX) |-> Pick(rowsX[i], genes)],
             var |-> Pick(ad.var, genes),
             keep |-> Pick(parsed.keep, rows),
             temp |-> Pick(parsed.temp, rows)])

\* one iteration of the sequential loop of vsRest
SequentialTest(ad, testComp, minCellCounts) ==
    testTwoSample(parseAdToDiffxpyFormat(ad, testComp, None, minCellCounts, TRUE))

----------------------------------------------------------------------------
(* The adapter alone *)

AdapterInputs ==
    [ad : {Collection(o, Ramp(Len(o))) : o \in SeqsOf(GroupNames, 0, MaxCells)},
     testComp : GroupNames,
     otherComp : {None} \cup {<<g>> : g \in GroupNames},
     minCellCounts : 0..MaxMinCells]

NoAd == Collection(<<>>, <<>>)

InitAdapter ==
    /\ input \in AdapterInputs
    /\ output = [subset |-> NoAd, marked |-> NoAd]
    /\ phase = {}
    /\ adata = NoAd /\ uns = <<>> /\ pc = "off" /\ call = <<>> /\ idx = 0
    /\ futures = <<>> /\ dt = <<>> /\ shm = <<>> /\ outcome = "none"
    /\ ran = <<>> /\ started = 0

\* the adapter as the sequential paths call it
ApplySubset ==
    /\ "subset" \notin phase
    /\ output' = [output EXCEPT !.subset =
            parseAdToDiffxpyFormat(input.ad, input.testComp, input.otherComp,
                                   input.minCellCounts, TRUE)]
    /\ phase' = phase \cup {"subset"}
    /\ UNCHANGED <<input, callVars>>

\* the adapter as the pool worker calls it
ApplyMarked ==
    /\ "marked" \notin phase
    /\ output' = [output EXCEPT !.marked =
            parseAdToDiffxpyFormat(input.ad, input.testComp, input.otherComp,
                                   input.minCellCounts, FALSE)]
    /\ phase' = phase \cup {"marked"}
    /\ UNCHANGED <<input, callVars>>

NextAdapter == ApplySubset \/ ApplyMarked

SpecAdapter == InitAdapter /\ [][NextAdapter]_vars

Count(s, v) == Cardinality({i \in 1..Len(s) : s[i] = v})

\* the cells the adapter retains: all of them, or those of the target and of
\* the reference groups
Retained(which) ==
    IF which = "marked" THEN input.ad.obs
    ELSE SelectSeq(input.ad.obs, LAMBDA x :
            \/ x = input.testComp
            \/ IF input.otherComp = None THEN TRUE
               ELSE x \in Range(input.otherComp))

\* C6 as stated: after the adapter the binary column has exactly the two
\* values "0" and "1", and as many "1" as there are cells of the target group.
C6_AsStated ==
    \A which \in phase :
        /\ Range(output[which].temp) = {"0", "1"}
        /\ Count(output[which].temp, "1") = Count(input.ad.obs, input.testComp)

\* C6 amended: the binary column holds only "0" and "1", as many "1" as there
\* are cells of the target group and a "0" for every other retained cell; so
\* both values occur exactly when the target and another retained group are
\* present.
C6_BinaryColumn ==
    \A which \in phase :
        LET temp == output[which].temp
        IN  /\ Range(temp) \subseteq {"0", "1"}
            /\ Count(temp, "1") = Count(input.ad.obs, input.testComp)
            /\ Count(temp, "0") =
                    Len(Retained(which)) - Count(input.ad.obs, input.testComp)
            /\ Range(temp) = {"0", "1"} <=>
                    /\ input.testComp \in Range(input.ad.obs)
                    /\ \E x \in Range(Retained(which)) : x # input.testComp

\* the target is the only group present, and the adapter has run both ways
C6_Witness ==
    /\ phase = {"subset", "marked"}
    /\ Len(input.ad.obs) >= 2
    /\ Range(input.ad.obs) = {input.testComp}
    /\ Range(output.subset.temp) = {"1"}

----------------------------------------------------------------------------
(* The two paths of vsRest on one group: what each hands to the engine *)

Matrices(n) == [1..n -> [1..PathGenes -> 0..PathCount]]

PathInputs ==
    UNION {[ad : {Collection(o, X) : o \in [1..n -> GroupNames], X \in Matrices(n)},
            testComp : GroupNames,
            minCellCounts : 0..PathMinCells] : n \in 1..PathCells}

NoTest == [ok |-> FALSE, handed |-> Handed(NoAd), table |-> <<>>]

InitPaths ==
    /\ input \in PathInputs
    /\ output = [sequential |-> NoTest, worker |-> NoTest]
    /\ phase = {}
    /\ adata = NoAd /\ uns = <<>> /\ pc = "off" /\ call = <<>> /\ idx = 0
    /\ futures = <<>> /\ dt = <<>> /\ shm = <<>> /\ outcome = "none"
    /\ ran = <<>> /\ started = 0

\* threads = 1: the loop body of vsRest
RunSequential ==
    /\ "sequential" \notin phase
    /\ output' = [output EXCEPT !.sequential =
            SequentialTest(input.ad, input.testComp, input.minCellCounts)]
    /\ phase' = phase \cup {"sequential"}
    /\ UNCHANGED <<input, callVars>>

\* threads > 1: the task run by a pool worker on the shared copy of the matrix
RunWorker ==
    /\ "worker" \notin phase
    /\ output' = [output EXCEPT !.worker =
            getDiffxpy(input.ad, input.ad.X, input.testComp, input.minCellCounts)]
    /\ phase' = phase \cup {"worker"}
    /\ UNCHANGED <<input, callVars>>

NextPaths == RunSequential \/ RunWorker

SpecPaths == InitPaths /\ [][NextPaths]_vars

\* C1: on the same collection, group and minCellCounts the sequential path
\* and the pool worker hand the engine the same cells, genes and binary
\* labels, and so produce the same result table.
C1_SamePaths ==
    phase = {"sequential", "worker"} =>
        /\ output.sequential.handed = output.worker.handed
        /\ output.sequential.ok = output.worker.ok
        /\ output.sequential.table = output.worker.table

----------------------------------------------------------------------------
(* The pairWise key: written by pairWise, parsed by getMarker *)

KeyAlphabet == {"a", "_", "b", "g"}

KeyInputs ==
    [testGroup : SeqsOf(KeyAlphabet, 1, MaxNameLen),
     backgroundGroup : SeqsOf(KeyAlphabet, 1, MaxNameLen)]

InitKeys ==
    /\ input \in KeyInputs
    /\ output = [key |-> <<>>, testedCluster |-> <<>>, bgCluster |-> <<>>]
    /\ phase = {}
    /\ adata = NoAd /\ uns = <<>> /\ pc = "off" /\ call = <<>> /\ idx = 0
    /\ futures = <<>> /\ dt = <<>> /\ shm = <<>> /\ outcome = "none"
    /\ ran = <<>> /\ started = 0

\* pairWise names the entry of a pair
WriteKey ==
    /\ phase = {}
    /\ output' = [output EXCEPT
            !.key = Key(input.testGroup, input.backgroundGroup)]
    /\ phase' = {"written"}
    /\ UNCHANGED <<input, callVars>>

\* getMarker reads the pair back from the name; [0] of an empty findall raises
ParseKey ==
    /\ phase = {"written"}
    /\ output' = [output EXCEPT
            !.testedCluster = FindTested(output.key),
            !.bgCluster = FindBg(output.key)]
    /\ phase' = {"written", "parsed"}
    /\ UNCHANGED <<input, callVars>>

NextKeys == WriteKey \/ ParseKey

SpecKeys == InitKeys /\ [][NextKeys]_vars

\* C10: the key test_{g1}_bg_{g2} is decoded back to the pair it was built
\* from: testedCluster = g1 and bgCluster = g2, whatever the names contain.
C10_KeyRoundTrip ==
    "parsed" \in phase =>
        /\ output.testedCluster = <<input.testGroup>>
        /\ output.bgCluster = <<input.backgroundGroup>>

----------------------------------------------------------------------------
(* Entries of the stored mapping; the second half of pairWise *)

\* an entry of uns[keyAdded]: the "__cat" tag, or a result table with the
\* number of the call that wrote it
TagEntry(cat) == [key |-> CatKey, tag |-> cat, table |-> <<>>, by |-> 0]
TableEntry(k, t, n) == [key |-> k, tag |-> "", table |-> t, by |-> n]

\* variant: the tag is set in the mapping already stored
StartEntryKeeping(d, cat) == Put(d, TagEntry(cat))

\* adataOrg.uns[keyAdded] = {"__cat": cat}
StartEntry(d, cat) == <<TagEntry(cat)>>

Tables(d) == {i \in 1..Len(d) : d[i].key # CatKey}

\* the (x, y) of product(range(n), range(n)), in order, 1-based
Product(n) == [k \in 1..(n * n) |-> <<((k - 1) \div n) + 1, ((k - 1) % n) + 1>>]

UpperPairs(n) == SelectSeq(Product(n), LAMBDA p : p[1] < p[2])
LowerPairs(n) == SelectSeq(Product(n), LAMBDA p : p[1] > p[2])

\* t["log2fc"] = -t["log2fc"]
NegateLog2fc(t) == [k \in 1..Len(t) |-> [t[k] EXCEPT !.log2fc = -t[k].log2fc]]

\* uns[key(test, bg)] = uns[key(bg, test)].copy(), then its log2fc negated
MirrorPair(d, testGroup, backgroundGroup, n) ==
    LET k == Key(testGroup, backgroundGroup)
        copied == Put(d, TableEntry(k, Get(d, Key(backgroundGroup, testGroup)).table, n))
    IN  Put(copied, TableEntry(k, NegateLog2fc(Get(copied, k).table), n))

RECURSIVE MirrorUpTo(_, _, _, _)
MirrorUpTo(d, groups, m, n) ==
    IF m = 0 THEN d
    ELSE LET p == LowerPairs(Len(groups))[m]
         IN  MirrorPair(MirrorUpTo(d, groups, m - 1, n),
                        groups[p[1]], groups[p[2]], n)

----------------------------------------------------------------------------
(* Marker Extractor on a pairWise result *)

MarkerNames == <<<<"a">>, <<"b">>, <<"c">>, <<"d">>, <<"e">>, <<"f">>>>

\* the result of a computed pair, one gene: up in the tested group, up in
\* the background, or not significant
MarkerRows ==
    {<<[gene |-> 1, log2fc |-> r[1], qval |-> r[2], mean |-> 1, coef_mle |-> r[1]]>> :
        r \in {<<2, 0>>, <<-2, 0>>, <<2, 1>>}}

\* the mapping pairWise leaves for the groups, given the computed tables
PairWiseEntry(groups, computed) ==
    LET upper == UpperPairs(Len(groups))
        first == [k \in 1..Len(upper) |->
                    TableEntry(Key(groups[upper[k][1]], groups[upper[k][2]]),
                               computed[k], 1)]
    IN  MirrorUpTo(<<TagEntry("pairWise")>> \o first, groups,
                   Len(LowerPairs(Len(groups))), 1)

MarkerInputs ==
    UNION {[groups : {SubSeq(MarkerNames, 1, n)},
            computed : [1..Len(UpperPairs(n)) -> MarkerRows],
            qvalue : {1}, log2fc : {1}, mean : {0},
            detectedCounts : (-2)..1] : n \in 2..MarkerGroups}

InitMarker ==
    /\ input \in MarkerInputs
    /\ output = <<>>
    /\ phase = {}
    /\ adata = NoAd /\ pc = "off" /\ call = <<>> /\ idx = 0
    /\ uns = PairWiseEntry(input.groups, input.computed)
    /\ futures = <<>> /\ dt = <<>> /\ shm = <<>> /\ outcome = "none"
    /\ ran = <<>> /\ started = 0

\* df_marker.query("qval < qvalue & log2fc > log2fc & mean > mean")
twoSample(t, qvalue, log2fc, mean) ==
    SelectSeq(t, LAMBDA r : r.qval < qvalue /\ r.log2fc > log2fc /\ r.mean > mean)

\* the rows of one entry that pass, tagged with the clusters parsed from its key
ParsedRows(e, qvalue, log2fc, mean) ==
    LET rows == twoSample(e.table, qvalue, log2fc, mean)
    IN  [k \in 1..Len(rows) |->
            [testedCluster |-> FindTested(e.key)[1], bgCluster |-> FindBg(e.key)[1],
             gene |-> rows[k].gene]]

RECURSIVE Concat(_, _)
Concat(ss, n) == IF n = 0 THEN <<>> ELSE Concat(ss, n - 1) \o ss[n]

\* detectedCounts <= 0 is resolved against len(set(ls_compName))
ResolveCounts(detectedCounts, ls_compName) ==
    IF detectedCounts <= 0
    THEN Cardinality(Range(ls_compName)) + detectedCounts
    ELSE detectedCounts

\* the (testedCluster, gene) groups of the merged rows with their counts, cut
\* at the resolved detectedCounts
pairWiseMarker(dt_marker, qvalue, log2fc, mean, detectedCounts) ==
    LET ents == SelectSeq(dt_marker, LAMBDA e : e.key # CatKey)
        ls_compName == [k \in 1..Len(ents) |-> FindBg(ents[k].key)[1]]
        merged == Concat([k \in 1..Len(ents) |->
                            ParsedRows(ents[k], qvalue, log2fc, mean)], Len(ents))
        grouped == {[testedCluster |-> r.testedCluster, gene |-> r.gene,
                     counts |-> Cardinality({i \in 1..Len(merged) :
                         /\ merged[i].testedCluster = r.testedCluster
                         /\ merged[i].gene = r.gene})] : r \in Range(merged)}
    IN  {g \in grouped : g.counts >= ResolveCounts(detectedCounts, ls_compName)}

\* getMarker(adata, key, ...) on a mapping tagged "pairWise"
GetMarker ==
    /\ phase = {}
    /\ Get(uns, CatKey).tag = "pairWise"
    /\ output' = pairWiseMarker(uns, input.qvalue, input.log2fc, input.mean,
                                input.detectedCounts)
    /\ phase' = {"marker"}
    /\ UNCHANGED <<input, callVars>>

NextMarker == GetMarker

SpecMarker == InitMarker /\ [][NextMarker]_vars

\* the backgrounds against which the gene of tested group t clears the cutoffs
Cleared(t) ==
    {b \in Range(input.groups) \ {t} :
        twoSample(Get(uns, Key(t, b)).table,
                  input.qvalue, input.log2fc, input.mean) # <<>>}

\* C2: a non-positive detectedCounts is resolved against the number of
\* backgrounds of a tested group, N - 1: the row of (tested group, gene) is
\* retained exactly when the gene clears the cutoffs against at least
\* (N - 1) + detectedCounts of them (2 of 3 for 4 groups and -1).
C2_ResolvedAgainstBackgrounds ==
    ("marker" \in phase /\ input.detectedCounts <= 0) =>
        \A t \in Range(input.groups) :
            (\E g \in output : g.testedCluster = t) <=>
                /\ Cleared(t) # {}
                /\ Cardinality(Cleared(t)) >=
                       (Len(input.groups) - 1) + input.detectedCounts

----------------------------------------------------------------------------
(* The dispatchers: calls of vsRest and pairWise that store under one key *)

\* the groups argument: None, or a list without repeated names
GroupArgs ==
    {[given |-> FALSE, list |-> <<>>]} \cup
    {[given |-> TRUE, list |-> l] :
        l \in {q \in SeqsOf(GroupNames, 0, Cardinality(GroupNames)) : NoRepeat(q)}}

\* variant: if groups is None
EffectiveGroupsIfNone(groups, obs) ==
    IF ~groups.given THEN Unique(obs) ELSE groups.list

\* if not groups: groups = list(adata.obs[testLabel].unique())
EffectiveGroups(groups, obs) ==
    IF groups.list = <<>> THEN Unique(obs) ELSE groups.list

\* adata[adata.obs[testLabel].isin(groups)].copy()
Working(ad, groups) ==
    LET rows == TrueIndices([i \in 1..Len(ad.obs) |-> ad.obs[i] \in Range(groups)])
    IN  Collection(Pick(ad.obs, rows), Pick(ad.X, rows))

Work == Working(adata, call.groups)

NoCall ==
    [no |-> 0, kind |-> "", threads |-> 1, passed |-> [given |-> FALSE, list |-> <<>>],
     labelOk |-> TRUE, groups |-> <<>>, minCellCounts |-> 1]

NewCall(kind, threads, passed, labelOk) ==
    [no |-> call.no + 1, kind |-> kind, threads |-> threads, passed |-> passed,
     labelOk |-> labelOk,
     groups |-> IF labelOk THEN EffectiveGroups(passed, adata.obs) ELSE <<>>,
     minCellCounts |-> 1]

NoShm == [state |-> "none", created |-> 0]

InitCalls ==
    /\ adata \in {Collection(o, Ramp(Len(o))) : o \in SeqsOf(GroupNames, 0, CallCells)}
    /\ uns = <<>>
    /\ pc = "idle"
    /\ call = NoCall
    /\ idx = 0
    /\ futures = <<>>
    /\ dt = <<>>
    /\ shm = NoShm
    /\ outcome = "none"
    /\ ran = <<>>
    /\ started = [no |-> 0, kind |-> ""]
    /\ input = <<>> /\ output = <<>> /\ phase = {}

CanCall == pc = "idle" /\ call.no < MaxCalls

\* a call whose testLabel is no column of obs: KeyError while the working
\* collection is prepared, before the entry is touched
CallRejected ==
    /\ CanCall
    /\ \E kind \in {"vsRest", "pairWise"}, passed \in GroupArgs :
          call' = NewCall(kind, 1, passed, FALSE)
    /\ outcome' = "raised"
    /\ ran' = <<>> /\ futures' = <<>> /\ dt' = <<>> /\ shm' = NoShm /\ idx' = 0
    /\ UNCHANGED <<adata, uns, pc, started, pureVars>>

\* the preparation of a call up to "start performing test": the entry under
\* the key is replaced
Begin(kind, threads, passed) ==
    /\ CanCall
    /\ call' = NewCall(kind, threads, passed, TRUE)
    /\ uns' = StartEntry(uns, kind)
    /\ started' = [no |-> call.no + 1, kind |-> kind]
    /\ outcome' = "running"
    /\ ran' = <<>> /\ futures' = <<>> /\ dt' = <<>> /\ idx' = 1
    /\ UNCHANGED <<adata, pureVars>>

StartSequential ==
    /\ \E passed \in GroupArgs : Begin("vsRest", 1, passed)
    /\ pc' = "loop"
    /\ shm' = NoShm

\* threads > 1: the matrix is copied into a fresh shared buffer; a buffer of
\* no bytes cannot be created (ValueError)
StartParallel ==
    /\ \E passed \in GroupArgs : Begin("vsRest", Threads, passed)
    /\ Len(Working(adata, call'.groups).obs) > 0
    /\ pc' = "submit"
    /\ shm' = [state |-> "live", created |-> 1]

StartParallelNoBuffer ==
    /\ \E passed \in GroupArgs : Begin("vsRest", Threads, passed)
    /\ Len(Working(adata, call'.groups).obs) = 0
    /\ pc' = "failed"
    /\ shm' = NoShm

StartPairWise ==
    /\ \E passed \in GroupArgs : Begin("pairWise", 1, passed)
    /\ pc' = "pairs"
    /\ shm' = NoShm

\* the exception leaves the call
Raise ==
    /\ pc = "failed"
    /\ pc' = "idle"
    /\ outcome' = "raised"
    /\ UNCHANGED <<adata, uns, call, idx, futures, dt, shm, ran, started, pureVars>>

\* if copy: return ...; else the call ends
Return ==
    /\ pc = "return"
    /\ pc' = "idle"
    /\ outcome' = "returned"
    /\ UNCHANGED <<adata, uns, call, idx, futures, dt, shm, ran, started, pureVars>>

(* vsRest, threads = 1 *)

LoopTest ==
    /\ pc = "loop"
    /\ idx <= Len(call.groups)
    /\ LET g == call.groups[idx]
           r == SequentialTest(Work, g, call.minCellCounts)
       IN  /\ ran' = Append(ran, [group |-> <<g>>, ok |-> r.ok])
           /\ IF r.ok
              THEN /\ uns' = Put(uns, TableEntry(g, r.table, call.no))
                   /\ idx' = idx + 1
                   /\ pc' = pc
              ELSE /\ pc' = "failed"
                   /\ UNCHANGED <<uns, idx>>
    /\ UNCHANGED <<adata, call, futures, dt, shm, outcome, started, pureVars>>

LoopDone ==
    /\ pc = "loop"
    /\ idx > Len(call.groups)
    /\ pc' = "return"
    /\ UNCHANGED <<adata, uns, call, idx, futures, dt, shm, outcome, ran, started,
                   pureVars>>

(* vsRest, threads > 1 *)

Finished(f) == f.state \in {"done", "failed"}

\* dt_diffxpyResult[singleGroup] = mtp.submit(_getDiffxpy, ...)
Submit ==
    /\ pc = "submit"
    /\ idx <= Len(call.groups)
    /\ futures' = Append(futures, [group |-> call.groups[idx], state |-> "pending",
                                   table |-> <<>>])
    /\ dt' = Put(dt, [key |-> call.groups[idx], fut |-> Len(futures) + 1])
    /\ idx' = idx + 1
    /\ UNCHANGED <<adata, uns, pc, call, shm, outcome, ran, started, pureVars>>

\* a free worker of the pool takes the oldest pending task and attaches the
\* buffer by name; attaching a released buffer fails the task
WorkerStart(f) ==
    /\ futures[f].state = "pending"
    /\ \A e \in 1..(f - 1) : futures[e].state # "pending"
    /\ Cardinality({e \in 1..Len(futures) : futures[e].state = "running"})
          < call.threads
    /\ IF shm.state = "live"
       THEN /\ futures' = [futures EXCEPT ![f].state = "running"]
            /\ ran' = ran
       ELSE /\ futures' = [futures EXCEPT ![f].state = "failed"]
            /\ ran' = Append(ran, [group |-> <<futures[f].group>>, ok |-> FALSE])
    /\ UNCHANGED <<adata, uns, pc, call, idx, dt, shm, outcome, started, pureVars>>

\* the task ends: its future holds the table, or the exception
WorkerFinish(f) ==
    /\ futures[f].state = "running"
    /\ LET r == getDiffxpy(Work, Work.X, futures[f].group, call.minCellCounts)
       IN  /\ futures' = [futures EXCEPT
                   ![f].state = IF r.ok THEN "done" ELSE "failed",
                   ![f].table = r.table]
           /\ ran' = Append(ran, [group |-> <<futures[f].group>>, ok |-> r.ok])
    /\ UNCHANGED <<adata, uns, pc, call, idx, dt, shm, outcome, started, pureVars>>

\* variant: shutdown(wait=False)
PoolJoinedNoWait == TRUE

\* leaving "with ProcessPoolExecutor(threads) as mtp": shutdown(wait=True)
PoolJoined == \A f \in 1..Len(futures) : Finished(futures[f])

PoolShutdown ==
    /\ pc = "submit"
    /\ idx > Len(call.groups)
    /\ PoolJoined
    /\ pc' = "release"
    /\ UNCHANGED <<adata, uns, call, idx, futures, dt, shm, outcome, ran, started,
                   pureVars>>

\* leaving "with SharedMemoryManager() as smm": the buffer is released
ReleaseBuffer ==
    /\ pc = "release"
    /\ shm' = [shm EXCEPT !.state = "released"]
    /\ pc' = "join"
    /\ idx' = 1
    /\ UNCHANGED <<adata, uns, call, futures, dt, outcome, ran, started, pureVars>>

\* variant: the exception of a failed task is dropped
JoinSwallows(f) == FALSE

\* y.result() re-raises the exception of a failed task
JoinRaises(f) == f.state = "failed"

\* {x: y.result() for x, y in dt_diffxpyResult.items()}: one result() at a
\* time, each waiting for its task
JoinRead ==
    /\ pc = "join"
    /\ idx <= Len(dt)
    /\ Finished(futures[dt[idx].fut])
    /\ IF JoinRaises(futures[dt[idx].fut])
       THEN pc' = "failed" /\ idx' = idx
       ELSE pc' = pc /\ idx' = idx + 1
    /\ UNCHANGED <<adata, uns, call, futures, dt, shm, outcome, ran, started,
                   pureVars>>

\* variant: the results keyed in completion order
JoinedResultsAsCompleted ==
    [k \in 1..Len(ran) |->
        TableEntry(ran[k].group[1],
                   futures[Get(dt, ran[k].group[1]).fut].table, call.no)]

\* the results keyed as dt_diffxpyResult is
JoinedResults ==
    [k \in 1..Len(dt) |->
        TableEntry(dt[k].key, futures[dt[k].fut].table, call.no)]

\* adataOrg.uns[keyAdded].update(dt_diffxpyResult)
JoinStore ==
    /\ pc = "join"
    /\ idx > Len(dt)
    /\ uns' = Update(uns, JoinedResults)
    /\ pc' = "return"
    /\ UNCHANGED <<adata, call, idx, futures, dt, shm, outcome, ran, started,
                   pureVars>>

(* pairWise *)

PairTable(ad, testGroup, backgroundGroup, minCellCounts) ==
    testTwoSample(parseAdToDiffxpyFormat(ad, testGroup, <<backgroundGroup>>,
                                         minCellCounts, TRUE))

\* the first loop: the pairs x < y are tested
PairTest ==
    /\ pc = "pairs"
    /\ idx <= Len(UpperPairs(Len(call.groups)))
    /\ LET p == UpperPairs(Len(call.groups))[idx]
           testGroup == call.groups[p[1]]
           backgroundGroup == call.groups[p[2]]
           r == PairTable(Work, testGroup, backgroundGroup, call.minCellCounts)
       IN  /\ ran' = Append(ran, [group |-> <<testGroup, backgroundGroup>>,
                                  ok |-> r.ok])
           /\ IF r.ok
              THEN /\ uns' = Put(uns, TableEntry(Key(testGroup, backgroundGroup),
                                                 r.table, call.no))
                   /\ idx' = idx + 1
                   /\ pc' = pc
              ELSE /\ pc' = "failed"
                   /\ UNCHANGED <<uns, idx>>
    /\ UNCHANGED <<adata, call, futures, dt, shm, outcome, started, pureVars>>

PairsDone ==
    /\ pc = "pairs"
    /\ idx > Len(UpperPairs(Len(call.groups)))
    /\ pc' = "mirror"
    /\ idx' = 1
    /\ UNCHANGED <<adata, uns, call, futures, dt, shm, outcome, ran, started,
                   pureVars>>

\* the second loop: the pairs x > y are filled from the tested ones
Mirror ==
    /\ pc = "mirror"
    /\ idx <= Len(LowerPairs(Len(call.groups)))
    /\ LET p == LowerPairs(Len(call.groups))[idx]
       IN  uns' = MirrorPair(uns, call.groups[p[1]], call.groups[p[2]], call.no)
    /\ idx' = idx + 1
    /\ UNCHANGED <<adata, pc, call, futures, dt, shm, outcome, ran, started,
                   pureVars>>

MirrorDone ==
    /\ pc = "mirror"
    /\ idx > Len(LowerPairs(Len(call.groups)))
    /\ pc' = "return"
    /\ UNCHANGED <<adata, uns, call, idx, futures, dt, shm, outcome, ran, started,
                   pureVars>>

Next ==
    \/ CallRejected
    \/ StartSequential
    \/ StartParallel
    \/ StartParallelNoBuffer
    \/ StartPairWise
    \/ Raise
    \/ Return
    \/ LoopTest
    \/ LoopDone
    \/ Submit
    \/ \E f \in 1..Len(futures) : WorkerStart(f)
    \/ \E f \in 1..Len(futures) : WorkerFinish(f)
    \/ PoolShutdown
    \/ ReleaseBuffer
    \/ JoinRead
    \/ JoinStore
    \/ PairTest
    \/ PairsDone
    \/ Mirror
    \/ MirrorDone

Spec == InitCalls /\ [][Next]_vars

----------------------------------------------------------------------------
(* Properties of the dispatchers *)

Ended == pc = "idle" /\ call.no > 0
Parallel == call.kind = "vsRest" /\ call.threads > 1
TableKeys(d) == {d[i].key : i \in Tables(d)}

\* C3: when a parallel vsRest returns, the keys of the mapping after "__cat"
\* are the groups in the order of the group list, whatever the order in
\* which the tasks completed, and each key holds the table of the task that
\* was submitted for that group.
C3_KeyOrder ==
    (Ended /\ Parallel /\ outcome = "returned") =>
        /\ Keys(uns) = <<CatKey>> \o call.groups
        /\ \A k \in 1..Len(call.groups) :
              \E f \in 1..Len(futures) :
                 /\ futures[f].group = call.groups[k]
                 /\ futures[f].state = "done"
                 /\ uns[k + 1].table = futures[f].table

\* a parallel call has returned whose second group completed first
C3_Witness ==
    /\ Ended /\ Parallel /\ outcome = "returned"
    /\ Len(call.groups) >= 2
    /\ ran[1].group = <<call.groups[2]>>
    /\ Len(uns) = Len(call.groups) + 1

\* C4: in a parallel vsRest the shared buffer is created once, it is released
\* only when no submitted task is pending or running, and the dispatcher is
\* at the join (reading results) only when every task has finished.
C4_BufferLifetime ==
    /\ shm.created <= 1
    /\ (pc \in {"submit", "release", "join"} \/ futures # <<>>) => shm.created = 1
    /\ shm.state = "released" =>
          \A f \in 1..Len(futures) : Finished(futures[f])
    /\ pc = "join" =>
          /\ Len(futures) = Len(call.groups)
          /\ \A f \in 1..Len(futures) : Finished(futures[f])

\* the buffer has been released after a run in which one task failed and
\* another succeeded
C4_Witness ==
    /\ pc = "join"
    /\ shm.state = "released"
    /\ \E f \in 1..Len(futures) : futures[f].state = "failed"
    /\ \E f \in 1..Len(futures) : futures[f].state = "done"

C7_Mirrored ==
    (Ended /\ call.kind = "pairWise" /\ outcome = "returned") =>
        \A i, j \in 1..Len(call.groups) :
            i > j =>
                LET gi == call.groups[i]
                    gj == call.groups[j]
                IN  /\ Get(uns, Key(gi, gj)).table =
                          NegateLog2fc(Get(uns, Key(gj, gi)).table)
                    /\ Get(uns, Key(gj, gi)).table =
                          PairTable(Work, gj, gi, call.minCellCounts).table

\* C8: a vsRest call one of whose tests failed ends in failure, sequential or
\* parallel; no group is tested twice; in parallel mode the failure is raised
\* only once every submitted task has finished and the buffer is released.
C8_FailurePropagates ==
    call.kind = "vsRest" =>
        /\ (Ended /\ \E k \in 1..Len(ran) : ~ran[k].ok) => outcome = "raised"
        /\ \A i, k \in 1..Len(ran) : i # k => ran[i].group # ran[k].group
        /\ (Parallel /\ pc \in {"failed", "idle"} /\ futures # <<>>) =>
              /\ shm.state = "released"
              /\ Len(futures) = Len(call.groups)
              /\ \A f \in 1..Len(futures) : Finished(futures[f])

\* a parallel call has ended in failure after one task failed and one succeeded
C8_Witness ==
    /\ Ended /\ Parallel /\ outcome = "raised"
    /\ \E k \in 1..Len(ran) : ~ran[k].ok
    /\ \E k \in 1..Len(ran) : ran[k].ok

\* C9 as stated: after any calls, failed or not, the entry contains no
\* result table written by a call earlier than the most recent one. That the
\* tag is the most recent call's is left out: the statement fails without it.
C9_AsStated ==
    Ended => \A i \in Tables(uns) : uns[i].by = call.no

\* C9 amended: the entry holds only the tag and tables of the most recent
\* call that got as far as starting its tests; a call that fails earlier,
\* while its input is prepared, leaves the entry as it was.
C9_NoStaleTables ==
    /\ \A i \in Tables(uns) : uns[i].by = started.no
    /\ started.no > 0 =>
          /\ Len(uns) >= 1
          /\ uns[1] = TagEntry(started.kind)
          /\ \A i \in 2..Len(uns) : uns[i].key # CatKey
    /\ call.labelOk => (started.no = call.no /\ started.kind = call.kind)
    /\ started.no = 0 => uns = <<>>

\* a later call has failed part-way and the entry holds the tables it wrote
C9_Witness ==
    /\ Ended /\ call.no >= 2
    /\ outcome = "raised"
    /\ started.no = call.no
    /\ Tables(uns) # {}

=============================================================================
